---- MODULE Spec2Model ----
(***************************************************************************)
(* Model of src/backend/server.js: an express server whose handlers load   *)
(* the whole JSON store (readDb), change the loaded copy in memory and     *)
(* write the whole copy back (writeDb).  Handlers are async functions on   *)
(* one event loop: each runs without interruption between its awaits, and  *)
(* the handlers of concurrent requests interleave at the awaits.           *)
(*                                                                         *)
(* Strings that the code sorts, joins or derives from the clock (user ids, *)
(* chat ids) are sequences of one-character strings; usernames and         *)
(* payloads, which are only compared for equality or emptiness, are TLA+   *)
(* strings.  The empty string stands for an absent JSON field / header.    *)
(*                                                                         *)
(* Three specifications share the actions: Spec (registration and          *)
(* friend-request routes, requests served concurrently), MsgSpec           *)
(* (registration, avatar and message routes, concurrently) and SeqSpec     *)
(* (registration and friend-request routes, one request at a time, with    *)
(* arbitrary caller-supplied ids).                                         *)
(***************************************************************************)
EXTENDS Integers, Sequences, FiniteSets, Bags, TLC

(* ------------------------------ bounds -------------------------------- *)

\* Requests being served at once.
NumHandlers == 2

\* Date.now() runs over 1..MaxClock.
MaxClock == 2

\* writeDb calls, completed or under way, in one behaviour of Spec, of MsgSpec
\* and of SeqSpec.
MaxWrites == 4

MsgMaxWrites == 3

SeqMaxWrites == 5

\* The same for KeySpec.
KeyMaxWrites == 4

\* The same for FeedSpec.
FeedMaxWrites == 4

\* The same for RegSpec.
RegMaxWrites == 4

\* The same for RejSpec.
RejMaxWrites == 4

\* The same for FileSpec.
FileMaxWrites == 4

Usernames == {"a", "b"}

Payloads == {"hi"}

Images == {"img"}

\* An id no registration produces (ids are decimal numerals).
GhostId == <<"x">>

(* ------------------------------ strings ------------------------------- *)

Digit(d) ==
  CASE d = 0 -> "0" [] d = 1 -> "1" [] d = 2 -> "2" [] d = 3 -> "3"
    [] d = 4 -> "4" [] d = 5 -> "5" [] d = 6 -> "6" [] d = 7 -> "7"
    [] d = 8 -> "8" [] d = 9 -> "9"

RECURSIVE ToStr(_)
\* Number.prototype.toString() of a non-negative integer.
ToStr(n) == IF n < 10 THEN << Digit(n) >> ELSE Append(ToStr(n \div 10), Digit(n % 10))

\* UTF-16 code unit of the characters the model uses.
CharCode(c) ==
  CASE c = "0" -> 48 [] c = "1" -> 49 [] c = "2" -> 50 [] c = "3" -> 51
    [] c = "4" -> 52 [] c = "5" -> 53 [] c = "6" -> 54 [] c = "7" -> 55
    [] c = "8" -> 56 [] c = "9" -> 57 [] c = "_" -> 95 [] c = "x" -> 120

RECURSIVE StrLess(_, _)
\* a < b in JavaScript's string order (code unit by code unit, prefix first).
StrLess(a, b) ==
  IF b = << >> THEN FALSE
  ELSE IF a = << >> THEN TRUE
  ELSE IF Head(a) # Head(b) THEN CharCode(Head(a)) < CharCode(Head(b))
  ELSE StrLess(Tail(a), Tail(b))

\* [a, b].sort().join('_')
ChatId(a, b) == IF StrLess(b, a) THEN b \o << "_" >> \o a ELSE a \o << "_" >> \o b

(* ------------------------------ arrays -------------------------------- *)

Range(s) == { s[i] : i \in DOMAIN s }

\* Array.prototype.includes
Includes(s, x) == \E i \in DOMAIN s : s[i] = x

RECURSIVE Without(_, _)
\* s.filter(id => id !== x)
Without(s, x) ==
  IF s = << >> THEN << >>
  ELSE IF Head(s) = x THEN Without(Tail(s), x)
  ELSE << Head(s) >> \o Without(Tail(s), x)

(* ------------------------------ the store ----------------------------- *)

EmptyMap == [k \in {} |-> << >>]

\* initDb's initialData.
InitialData ==
  [users |-> << >>, posts |-> << >>, friends |-> << >>,
   friendRequests |-> << >>, messages |-> EmptyMap]

\* Index of the first element of entries whose userId is u, 0 when none:
\* the element Array.prototype.find returns.
FindEntry(entries, u) ==
  IF \E i \in DOMAIN entries : entries[i].userId = u
  THEN CHOOSE i \in DOMAIN entries :
         /\ entries[i].userId = u
         /\ \A j \in 1..(i - 1) : entries[j].userId # u
  ELSE 0

\* db.users.find(u => u.id === id) finds a user.
HasUser(db, id) == \E i \in DOMAIN db.users : db.users[i].id = id

\* getFR: the friendRequests array after getFR(userId) has run.
GetFR(frs, u) ==
  IF FindEntry(frs, u) = 0
  THEN Append(frs, [userId |-> u, sent |-> << >>, received |-> << >>])
  ELSE frs

\* getFriends: the friends array after getFriends(userId) has run.
GetFriends(fs, u) ==
  IF FindEntry(fs, u) = 0
  THEN Append(fs, [userId |-> u, friends |-> << >>])
  ELSE fs

(* The sets the store holds for a user id; an absent record is empty. *)
FriendsOf(db, u) ==
  IF FindEntry(db.friends, u) = 0 THEN {}
  ELSE Range(db.friends[FindEntry(db.friends, u)].friends)

SentOf(db, u) ==
  IF FindEntry(db.friendRequests, u) = 0 THEN {}
  ELSE Range(db.friendRequests[FindEntry(db.friendRequests, u)].sent)

ReceivedOf(db, u) ==
  IF FindEntry(db.friendRequests, u) = 0 THEN {}
  ELSE Range(db.friendRequests[FindEntry(db.friendRequests, u)].received)

\* db.messages[chatId] || []
Thread(db, c) == IF c \in DOMAIN db.messages THEN db.messages[c] ELSE << >>

(* ------------------------------ responses ----------------------------- *)

Ok == [status |-> 200, error |-> ""]
Err(code, text) == [status |-> code, error |-> text]

NoMsg ==
  [id |-> << >>, senderId |-> << >>, type |-> "", text |-> "", audioData |-> "",
   time |-> 0, read |-> FALSE]

\* What a handler leaves behind: the store to write, the response, the message
\* it answers with (NoMsg when the response carries none).
Out(db, res, msg) == [db |-> db, res |-> res, msg |-> msg]

(* ------------------------------ handlers ------------------------------ *)

\* authMiddleware, after its readDb: the 401 it answers with, Ok to go on.
AuthMiddleware(db, userId) ==
  IF userId = << >> THEN Err(401, "No user id")
  ELSE IF ~HasUser(db, userId) THEN Err(401, "User not found")
  ELSE Ok

\* POST /api/me/avatar, after authMiddleware.
UpdateAvatarBody(db, me, avatarImage) ==
  IF avatarImage = "" THEN Out(db, Err(400, "no image"), NoMsg)
  ELSE
    LET userIndex == CHOOSE i \in DOMAIN db.users :
                       /\ db.users[i].id = me
                       /\ \A j \in 1..(i - 1) : db.users[j].id # me
    IN  Out([db EXCEPT !.users[userIndex].avatarImage = avatarImage], Ok, NoMsg)

\* POST /api/register, after its readDb.
RegisterBody(db, username, password, now) ==
  IF username = "" \/ password = "" THEN Out(db, Err(400, "missing field"), NoMsg)
  ELSE IF \E i \in DOMAIN db.users : db.users[i].username = username
  THEN Out(db, Err(400, "username taken"), NoMsg)
  ELSE
    LET id == ToStr(now)
        user == [id |-> id, username |-> username, password |-> password,
                 avatarImage |-> ""]
    IN  Out([db EXCEPT
               !.users = Append(@, user),
               !.friends = Append(@, [userId |-> id, friends |-> << >>]),
               !.friendRequests =
                 Append(@, [userId |-> id, sent |-> << >>, received |-> << >>]),
               !.messages = [k \in DOMAIN @ \cup {id} |-> IF k = id THEN << >> ELSE @[k]]],
            Ok, NoMsg)

\* SendRequestBody without its two includes() tests: every call pushes.
SendRequestBodyAlwaysPushes(db, me, toUserId) ==
  IF toUserId = me THEN Out(db, Err(400, "self"), NoMsg)
  ELSE IF ~HasUser(db, toUserId) THEN Out(db, Err(404, "user not found"), NoMsg)
  ELSE
    LET frs1 == GetFR(GetFR(db.friendRequests, me), toUserId)
        i == FindEntry(frs1, me)
        j == FindEntry(frs1, toUserId)
        frs2 == [frs1 EXCEPT ![i].sent = Append(@, toUserId)]
    IN  Out([db EXCEPT !.friendRequests = [frs2 EXCEPT ![j].received = Append(@, me)]],
            Ok, NoMsg)

\* SendRequestBody without the check of toUserId against the caller's id.
SendRequestBodyNoSelfCheck(db, me, toUserId) ==
  IF ~HasUser(db, toUserId) THEN Out(db, Err(404, "user not found"), NoMsg)
  ELSE Out([db EXCEPT !.friendRequests = SendRequestBodyAlwaysPushes(db, me, toUserId).db.friendRequests], Ok, NoMsg)

\* POST /api/friend-requests, after authMiddleware.
SendRequestBody(db, me, toUserId) ==
  IF toUserId = me THEN Out(db, Err(400, "self"), NoMsg)
  ELSE IF ~HasUser(db, toUserId) THEN Out(db, Err(404, "user not found"), NoMsg)
  ELSE
    LET frs1 == GetFR(GetFR(db.friendRequests, me), toUserId)
        i == FindEntry(frs1, me)
        j == FindEntry(frs1, toUserId)
        frs2 == IF ~Includes(frs1[i].sent, toUserId)
                THEN [frs1 EXCEPT ![i].sent = Append(@, toUserId)]
                ELSE frs1
        frs3 == IF ~Includes(frs2[j].received, me)
                THEN [frs2 EXCEPT ![j].received = Append(@, me)]
                ELSE frs2
    IN  Out([db EXCEPT !.friendRequests = frs3], Ok, NoMsg)

\* RemoveRequest without the filter of fromFR.sent.
RemoveRequestOneSided(frs, me, fromUserId) ==
  LET frs1 == GetFR(GetFR(frs, me), fromUserId)
      i == FindEntry(frs1, me)
  IN  [frs1 EXCEPT ![i].received = Without(@, fromUserId)]

\* Lines 286-290 and 318-322: both records fetched, then the request removed
\* from meFR.received and from fromFR.sent.
RemoveRequest(frs, me, fromUserId) ==
  LET frs1 == GetFR(GetFR(frs, me), fromUserId)
      i == FindEntry(frs1, me)
      j == FindEntry(frs1, fromUserId)
      frs2 == [frs1 EXCEPT ![i].received = Without(@, fromUserId)]
  IN  [frs2 EXCEPT ![j].sent = Without(@, me)]

\* AddFriends without the push to fromFriends.friends.
AddFriendsOneSided(fs, me, fromUserId) ==
  LET fs1 == GetFriends(GetFriends(fs, me), fromUserId)
      i == FindEntry(fs1, me)
  IN  IF ~Includes(fs1[i].friends, fromUserId)
      THEN [fs1 EXCEPT ![i].friends = Append(@, fromUserId)]
      ELSE fs1

\* Lines 292-298: both friend lists fetched, then each id pushed to the other's
\* list unless it is there.
AddFriends(fs, me, fromUserId) ==
  LET fs1 == GetFriends(GetFriends(fs, me), fromUserId)
      i == FindEntry(fs1, me)
      j == FindEntry(fs1, fromUserId)
      fs2 == IF ~Includes(fs1[i].friends, fromUserId)
             THEN [fs1 EXCEPT ![i].friends = Append(@, fromUserId)]
             ELSE fs1
  IN  IF ~Includes(fs2[j].friends, me)
      THEN [fs2 EXCEPT ![j].friends = Append(@, me)]
      ELSE fs2

\* AcceptRequestBody that leaves the request in place.
AcceptRequestBodyKeepsRequest(db, me, fromUserId) ==
  Out([db EXCEPT !.friends = AddFriends(@, me, fromUserId)], Ok, NoMsg)

\* POST /api/friend-requests/:fromUserId/accept, after authMiddleware.
AcceptRequestBody(db, me, fromUserId) ==
  Out([db EXCEPT !.friendRequests = RemoveRequest(@, me, fromUserId),
                 !.friends = AddFriends(@, me, fromUserId)],
      Ok, NoMsg)

\* DeclineRequestBody with the friends lines of the accept route left in.
DeclineRequestBodyAddsFriends(db, me, fromUserId) ==
  Out([db EXCEPT !.friendRequests = RemoveRequest(@, me, fromUserId),
                 !.friends = AddFriends(@, me, fromUserId)],
      Ok, NoMsg)

\* POST /api/friend-requests/:fromUserId/decline, after authMiddleware.
DeclineRequestBody(db, me, fromUserId) ==
  Out([db EXCEPT !.friendRequests = RemoveRequest(@, me, fromUserId)], Ok, NoMsg)

\* db.messages[chatId].push(msg), the thread created when absent.
PushMessage(db, chatId, msg) ==
  [db EXCEPT !.messages =
     [k \in DOMAIN @ \cup {chatId} |->
        IF k = chatId THEN Append(Thread(db, chatId), msg) ELSE @[k]]]

\* POST /api/chats/:friendId/message, after authMiddleware.
SendTextMessageBody(db, me, friendId, text, now) ==
  IF text = "" THEN Out(db, Err(400, "empty message"), NoMsg)
  ELSE
    LET msg == [id |-> ToStr(now), senderId |-> me, type |-> "text", text |-> text,
                audioData |-> "", time |-> now, read |-> FALSE]
    IN  Out(PushMessage(db, ChatId(me, friendId), msg), Ok, msg)

\* POST /api/chats/:friendId/voice, after authMiddleware.
SendVoiceMessageBody(db, me, friendId, audioData, now) ==
  IF audioData = "" THEN Out(db, Err(400, "no audio"), NoMsg)
  ELSE
    LET msg == [id |-> ToStr(now), senderId |-> me, type |-> "voice", text |-> "",
                audioData |-> audioData, time |-> now, read |-> FALSE]
    IN  Out(PushMessage(db, ChatId(me, friendId), msg), Ok, msg)

\* req.user of authMiddleware: db.users.find(u => u.id === userId).
UserOf(db, userId) ==
  db.users[CHOOSE i \in DOMAIN db.users :
             /\ db.users[i].id = userId
             /\ \A j \in 1..(i - 1) : db.users[j].id # userId]

\* Index of db.posts.find(p => p.id === postId), 0 when there is none.
FindPost(db, postId) ==
  IF \E i \in DOMAIN db.posts : db.posts[i].id = postId
  THEN CHOOSE i \in DOMAIN db.posts :
         /\ db.posts[i].id = postId
         /\ \A j \in 1..(i - 1) : db.posts[j].id # postId
  ELSE 0

\* s.indexOf(x), counted from 1, 0 when x is not in s.
IndexOf(s, x) ==
  IF Includes(s, x)
  THEN CHOOSE i \in DOMAIN s : s[i] = x /\ \A j \in 1..(i - 1) : s[j] # x
  ELSE 0

\* s.splice(i, 1), counted from 1.
Splice(s, i) == SubSeq(s, 1, i - 1) \o SubSeq(s, i + 1, Len(s))

\* The likes of the post that postId finds, empty when it finds none.
LikesOf(db, postId) ==
  IF FindPost(db, postId) = 0 THEN << >> ELSE db.posts[FindPost(db, postId)].likes

\* POST /api/posts, after authMiddleware.
CreatePostBody(db, me, text, image, now) ==
  IF text = "" /\ image = "" THEN Out(db, Err(400, "empty post"), NoMsg)
  ELSE
    LET post == [id |-> ToStr(now), authorId |-> me,
                 author |-> UserOf(db, me).username,
                 authorAvatarImage |-> UserOf(db, me).avatarImage,
                 text |-> text, image |-> image, createdAt |-> now,
                 likes |-> << >>, comments |-> << >>]
    IN  Out([db EXCEPT !.posts = Append(@, post)], Ok, NoMsg)

\* ToggleLikeBody with the push done whether or not the id is in likes.
ToggleLikeBodyAlwaysPushes(db, me, postId) ==
  IF FindPost(db, postId) = 0 THEN Out(db, Err(404, "post not found"), NoMsg)
  ELSE Out([db EXCEPT !.posts[FindPost(db, postId)].likes = Append(@, me)],
           Ok, NoMsg)

\* POST /api/posts/:postId/like, after authMiddleware.
ToggleLikeBody(db, me, postId) ==
  IF FindPost(db, postId) = 0 THEN Out(db, Err(404, "post not found"), NoMsg)
  ELSE Out([db EXCEPT !.posts[FindPost(db, postId)].likes =
              IF IndexOf(@, me) = 0 THEN Append(@, me)
              ELSE Splice(@, IndexOf(@, me))],
           Ok, NoMsg)

\* AddCommentBody without the check of the text.
AddCommentBodyNoTextCheck(db, me, postId, text, now) ==
  IF FindPost(db, postId) = 0
  THEN Out(db, Err(404, "post not found"), NoMsg)
  ELSE
    LET comment == [id |-> ToStr(now), authorId |-> me,
                    author |-> UserOf(db, me).username,
                    authorAvatarImage |-> UserOf(db, me).avatarImage,
                    text |-> text]
    IN  Out([db EXCEPT !.posts[FindPost(db, postId)].comments = Append(@, comment)],
            Ok, NoMsg)

\* POST /api/posts/:postId/comment, after authMiddleware.
AddCommentBody(db, me, postId, text, now) ==
  IF text = "" THEN Out(db, Err(400, "empty comment"), NoMsg)
  ELSE IF FindPost(db, postId) = 0
  THEN Out(db, Err(404, "post not found"), NoMsg)
  ELSE
    LET comment == [id |-> ToStr(now), authorId |-> me,
                    author |-> UserOf(db, me).username,
                    authorAvatarImage |-> UserOf(db, me).avatarImage,
                    text |-> text]
    IN  Out([db EXCEPT !.posts[FindPost(db, postId)].comments = Append(@, comment)],
            Ok, NoMsg)

(* ------------------------------ state --------------------------------- *)

VARIABLES
  disk,     \* the content of db.json
  nwrites,  \* writeDb calls completed so far
  clock,    \* Date.now()
  hs        \* the handlers that await their writeDb, a bag of records

vars == << disk, nwrites, clock, hs >>

\* The handlers at work.
Handlers == BagToSet(hs)

\* The ids registration can produce within the clock's range.
UserIds == { ToStr(t) : t \in 1..MaxClock }

\* Ids a caller may put in the x-user-id header or in the URL; the empty id is
\* a missing header.
CallerIds == UserIds \cup { GhostId }

Init ==
  /\ disk = InitialData
  /\ nwrites = 0
  /\ clock = 1
  /\ hs = EmptyBag

\* Time passes.
Tick ==
  /\ clock < MaxClock
  /\ clock' = clock + 1
  /\ UNCHANGED << disk, nwrites, hs >>

\* Fewer than n handlers are at work.
Capacity(n) == BagCardinality(hs) < n

\* Fewer than n writeDb calls are completed or under way.
Budget(n) == nwrites + BagCardinality(hs) < n

\* A request arrives; its readDb returns the file's content and the handler
\* runs, without interruption, up to its call of writeDb (out.db is the copy it
\* passes; ver counts the writes the copy has seen) or to the error response it
\* returns with at once.
Serve(op, actor, target, out) ==
  /\ hs' = IF out.res.status = 200
           THEN hs (+) SetToBag({[op |-> op, actor |-> actor, target |-> target,
                                  ver |-> nwrites, pend |-> out.db,
                                  res |-> out.res, msg |-> out.msg]})
           ELSE hs
  /\ UNCHANGED << disk, nwrites, clock >>

\* A route behind authMiddleware: the 401 of the middleware, or the route's own
\* outcome.
Authed(db, userId, out) ==
  IF AuthMiddleware(db, userId).status = 200 THEN out
  ELSE Out(db, AuthMiddleware(db, userId), NoMsg)

\* What each route makes of the store db it has read.
SendRequestOut(db, me, toUserId) ==
  Authed(db, me, SendRequestBody(db, me, toUserId))

AcceptRequestOut(db, me, fromUserId) ==
  Authed(db, me, AcceptRequestBody(db, me, fromUserId))

DeclineRequestOut(db, me, fromUserId) ==
  Authed(db, me, DeclineRequestBody(db, me, fromUserId))

Register(username, password) ==
  Serve("register", << >>, << >>, RegisterBody(disk, username, password, clock))

SendRequest(me, toUserId) ==
  Serve("sendRequest", me, toUserId, SendRequestOut(disk, me, toUserId))

AcceptRequest(me, fromUserId) ==
  Serve("acceptRequest", me, fromUserId, AcceptRequestOut(disk, me, fromUserId))

DeclineRequest(me, fromUserId) ==
  Serve("declineRequest", me, fromUserId, DeclineRequestOut(disk, me, fromUserId))

SendTextMessage(me, friendId, text) ==
  Serve("sendTextMessage", me, friendId,
        Authed(disk, me, SendTextMessageBody(disk, me, friendId, text, clock)))

SendVoiceMessage(me, friendId, audioData) ==
  Serve("sendVoiceMessage", me, friendId,
        Authed(disk, me, SendVoiceMessageBody(disk, me, friendId, audioData, clock)))

UpdateAvatar(me, avatarImage) ==
  Serve("updateAvatar", me, << >>,
        Authed(disk, me, UpdateAvatarBody(disk, me, avatarImage)))

\* The writeDb of handler h completes: the file holds the handler's copy of the
\* store, and the handler answers (res.json) and is done.
WriteDb(h) ==
  /\ BagIn(h, hs)
  /\ h.res.status = 200
  /\ disk' = h.pend
  /\ nwrites' = nwrites + 1
  /\ hs' = hs (-) SetToBag({h})
  /\ UNCHANGED clock

\* req.body, the fields that are absent being "".
NoBody ==
  [username |-> "", password |-> "", text |-> "", image |-> "", audioData |-> ""]

\* A request is served as in Serve, and the handler is kept whatever its answer
\* is, with the body of the request: one that answers with an error has sent
\* its response and has no writeDb ahead of it.
Request(op, actor, target, body, out) ==
  /\ hs' = hs (+) SetToBag({[op |-> op, actor |-> actor, target |-> target,
                             body |-> body, ver |-> nwrites, pend |-> out.db,
                             res |-> out.res, msg |-> out.msg]})
  /\ UNCHANGED << disk, nwrites, clock >>

\* The error response of handler h reaches the caller: return res.status(..).
Respond(h) ==
  /\ BagIn(h, hs)
  /\ h.res.status >= 400
  /\ hs' = hs (-) SetToBag({h})
  /\ UNCHANGED << disk, nwrites, clock >>

CreatePost(me, text, image) ==
  Request("createPost", me, << >>, [NoBody EXCEPT !.text = text, !.image = image],
          Authed(disk, me, CreatePostBody(disk, me, text, image, clock)))

ToggleLike(me, postId) ==
  Request("toggleLike", me, postId, NoBody,
          Authed(disk, me, ToggleLikeBody(disk, me, postId)))

AddComment(me, postId, text) ==
  Request("addComment", me, postId, [NoBody EXCEPT !.text = text],
          Authed(disk, me, AddCommentBody(disk, me, postId, text, clock)))

\* The routes of Register, SendRequest, SendTextMessage and SendVoiceMessage
\* with the handler kept when it answers with an error.
TryRegister(username, password) ==
  Request("register", << >>, << >>,
          [NoBody EXCEPT !.username = username, !.password = password],
          RegisterBody(disk, username, password, clock))

TrySendRequest(me, toUserId) ==
  Request("sendRequest", me, toUserId, NoBody, SendRequestOut(disk, me, toUserId))

TrySendTextMessage(me, friendId, text) ==
  Request("sendTextMessage", me, friendId, [NoBody EXCEPT !.text = text],
          Authed(disk, me, SendTextMessageBody(disk, me, friendId, text, clock)))

TrySendVoiceMessage(me, friendId, audioData) ==
  Request("sendVoiceMessage", me, friendId, [NoBody EXCEPT !.audioData = audioData],
          Authed(disk, me, SendVoiceMessageBody(disk, me, friendId, audioData, clock)))

(* Concurrent requests to the registration and friend-request routes.  A call
   with an x-user-id that is not registered is answered 401 and a sendRequest
   to an id that is not registered 404, whatever the id: the callers here use
   the ids in the file, and GhostId for an id that is not there. *)
Open == Capacity(NumHandlers) /\ Budget(MaxWrites)

Registered == { disk.users[i].id : i \in DOMAIN disk.users }

Next ==
  \/ Tick
  \/ \E n \in Usernames \cup {""} : Open /\ Register(n, "pw")
  \/ \E a \in Registered \cup {<< >>}, t \in Registered \cup {GhostId} :
       Open /\ SendRequest(a, t)
  \/ \E a \in Registered, t \in Registered \cup {GhostId} : Open /\ AcceptRequest(a, t)
  \/ \E a \in Registered, t \in Registered \cup {GhostId} : Open /\ DeclineRequest(a, t)
  \/ \E h \in Handlers : WriteDb(h)

Spec == Init /\ [][Next]_vars

(* Concurrent requests to the registration and message routes. *)
MsgOpen == Capacity(NumHandlers) /\ Budget(MsgMaxWrites)

MsgNext ==
  \/ Tick
  \/ \E n \in Usernames : MsgOpen /\ Register(n, "pw")
  \/ \E a \in UserIds, t \in CallerIds, p \in Payloads \cup {""} :
       MsgOpen /\ SendTextMessage(a, t, p)
  \/ \E a \in UserIds, t \in CallerIds, p \in Payloads \cup {""} :
       MsgOpen /\ SendVoiceMessage(a, t, p)
  \/ \E a \in UserIds, img \in Images \cup {""} : MsgOpen /\ UpdateAvatar(a, img)
  \/ \E h \in Handlers : WriteDb(h)

MsgSpec == Init /\ [][MsgNext]_vars

(* One request at a time: the next request arrives when the last is answered. *)
SeqOpen == Capacity(1) /\ Budget(SeqMaxWrites)

SeqNext ==
  \/ Tick
  \/ \E n \in Usernames \cup {""}, p \in {"", "pw"} : SeqOpen /\ Register(n, p)
  \/ \E a \in CallerIds \cup {<< >>}, t \in CallerIds : SeqOpen /\ SendRequest(a, t)
  \/ \E a \in CallerIds, t \in CallerIds : SeqOpen /\ AcceptRequest(a, t)
  \/ \E a \in CallerIds, t \in CallerIds : SeqOpen /\ DeclineRequest(a, t)
  \/ \E h \in Handlers : WriteDb(h)

SeqSpec == Init /\ [][SeqNext]_vars

(* Concurrent requests to the registration and text-message routes, the
   :friendId of the URL being any string: an id, or two ids with a '_' between
   them. *)
PeerIds == UserIds \cup { a \o << "_" >> \o b : a \in UserIds, b \in UserIds }

KeyOpen == Capacity(NumHandlers) /\ Budget(KeyMaxWrites)

KeyNext ==
  \/ Tick
  \/ \E n \in Usernames : KeyOpen /\ Register(n, "pw")
  \/ \E a \in Registered, t \in PeerIds, p \in Payloads :
       KeyOpen /\ SendTextMessage(a, t, p)
  \/ \E h \in Handlers : WriteDb(h)

KeySpec == Init /\ [][KeyNext]_vars

(* Concurrent requests to the registration and feed routes.  The :postId of
   the URL is the id of a post in the file, or GhostId for one that is not. *)
PostIds == { disk.posts[i].id : i \in DOMAIN disk.posts }

FeedOpen == Capacity(NumHandlers) /\ Budget(FeedMaxWrites)

FeedNext ==
  \/ Tick
  \/ \E n \in Usernames : FeedOpen /\ Register(n, "pw")
  \/ \E a \in Registered, t \in Payloads \cup {""}, i \in Images \cup {""} :
       FeedOpen /\ CreatePost(a, t, i)
  \/ \E a \in Registered, p \in PostIds \cup {GhostId} :
       FeedOpen /\ ToggleLike(a, p)
  \/ \E a \in Registered, p \in PostIds \cup {GhostId}, t \in Payloads \cup {""} :
       FeedOpen /\ AddComment(a, p, t)
  \/ \E h \in Handlers : WriteDb(h)
  \/ \E h \in Handlers : Respond(h)

FeedSpec == Init /\ [][FeedNext]_vars

(* Concurrent requests to the registration and send-request routes, every
   request being answered: with an error at once, or after its writeDb. *)
RegOpen == Capacity(NumHandlers) /\ Budget(RegMaxWrites)

RegNext ==
  \/ Tick
  \/ \E n \in Usernames \cup {""}, p \in {"", "pw"} : RegOpen /\ TryRegister(n, p)
  \/ \E a \in Registered \cup {<< >>}, t \in Registered \cup {GhostId} :
       RegOpen /\ TrySendRequest(a, t)
  \/ \E h \in Handlers : WriteDb(h)
  \/ \E h \in Handlers : Respond(h)

RegSpec == Init /\ [][RegNext]_vars

(* writeDb at the level of the file.  fs.writeFile opens db.json with flag 'w',
   which empties it, writes the text and closes; until the text is all there
   the file holds an initial part of it, which JSON.parse does not accept.  A
   write that fails (disk full, I/O error) leaves the file like that, closed.
   Writes that overlap are left out: a write begins when no other is going on. *)
Partial(db, closed) == [partial |-> db, closed |-> closed]

\* JSON.parse(raw) of readDb returns.
Parses(file) == "users" \in DOMAIN file

(* readDb and writeDb are awaited with no try/catch around them and the app has
   no error-handling middleware: when the promise rejects, the async handler
   (or authMiddleware) rejects in turn.  What the caller gets is Express's
   doing and the repository does not pin the version: Express 4 drops the
   rejection and nothing is sent, Express 5 passes it to its default error
   handler, which answers 500. *)
Unanswered == Err(0, "unhandled rejection")
ServerError == Err(500, "Internal Server Error")
Rejections == { Unanswered, ServerError }

\* readDb of a request rejects: the file does not parse.
ReadDbThrows(op, actor, res) ==
  /\ ~Parses(disk)
  /\ hs' = hs (+) SetToBag({[op |-> op, actor |-> actor, target |-> << >>,
                             body |-> NoBody, ver |-> nwrites, pend |-> disk,
                             res |-> res, msg |-> NoMsg]})
  /\ UNCHANGED << disk, nwrites, clock >>

\* fs.writeFile of handler h opens the file.
BeginWrite(h) ==
  /\ BagIn(h, hs)
  /\ h.res.status = 200
  /\ Parses(h.pend)
  /\ IF Parses(disk) THEN TRUE ELSE disk.closed
  /\ disk' = Partial(h.pend, FALSE)
  /\ UNCHANGED << nwrites, clock, hs >>

\* fs.writeFile of handler h has written all and closes: writeDb returns, and
\* the handler answers and is done.
FinishWrite(h) ==
  /\ BagIn(h, hs)
  /\ h.res.status = 200
  /\ disk = Partial(h.pend, FALSE)
  /\ disk' = h.pend
  /\ nwrites' = nwrites + 1
  /\ hs' = hs (-) SetToBag({h})
  /\ UNCHANGED clock

\* fs.writeFile of handler h fails part-way: writeDb rejects.
FailWrite(h, res) ==
  /\ BagIn(h, hs)
  /\ h.res.status = 200
  /\ disk = Partial(h.pend, FALSE)
  /\ disk' = Partial(h.pend, TRUE)
  /\ hs' = (hs (-) SetToBag({h})) (+) SetToBag({[h EXCEPT !.res = res]})
  /\ UNCHANGED << nwrites, clock >>

FileOpen == Capacity(NumHandlers) /\ Budget(FileMaxWrites)

FileNext ==
  \/ Tick
  \/ \E n \in Usernames : FileOpen /\ Parses(disk) /\ TryRegister(n, "pw")
  \/ \E a \in UserIds, t \in Payloads \cup {""} :
       FileOpen /\ Parses(disk) /\ CreatePost(a, t, "")
  \/ \E a \in UserIds, r \in Rejections :
       FileOpen /\ ReadDbThrows("createPost", a, r)
  \/ \E h \in Handlers : BeginWrite(h)
  \/ \E h \in Handlers : FinishWrite(h)
  \/ \E h \in Handlers, r \in Rejections : FailWrite(h, r)
  \/ \E h \in Handlers : Respond(h)

FileSpec == Init /\ [][FileNext]_vars

(* Requests to the registration, feed and message routes, one at a time and
   each one answered, with bodies that have the text, image or audio and
   bodies that do not. *)
RejOpen == Capacity(1) /\ Budget(RejMaxWrites)

RejNext ==
  \/ Tick
  \/ \E n \in Usernames : RejOpen /\ Register(n, "pw")
  \/ \E a \in Registered, t \in Payloads \cup {""}, i \in Images \cup {""} :
       RejOpen /\ CreatePost(a, t, i)
  \/ \E a \in Registered, p \in PostIds \cup {GhostId} :
       RejOpen /\ ToggleLike(a, p)
  \/ \E a \in Registered, p \in PostIds \cup {GhostId}, t \in Payloads \cup {""} :
       RejOpen /\ AddComment(a, p, t)
  \/ \E a \in Registered, t \in Registered, p \in Payloads \cup {""} :
       RejOpen /\ TrySendTextMessage(a, t, p)
  \/ \E a \in Registered, t \in Registered, p \in Payloads \cup {""} :
       RejOpen /\ TrySendVoiceMessage(a, t, p)
  \/ \E h \in Handlers : WriteDb(h)
  \/ \E h \in Handlers : Respond(h)

RejSpec == Init /\ [][RejNext]_vars

(* ------------------------------ properties ---------------------------- *)

\* The friends, sent and received sets of every id are the same in db1 and db2.
SameSets(db1, db2) ==
  \A u \in CallerIds :
    /\ FriendsOf(db1, u) = FriendsOf(db2, u)
    /\ SentOf(db1, u) = SentOf(db2, u)
    /\ ReceivedOf(db1, u) = ReceivedOf(db2, u)

\* Some handler at work has read a file that another handler has written since.
StaleHandler == \E h \in Handlers : h.ver < nwrites

\* C1 (Spec): in every content of the file, whatever the interleaving of the
\* handlers' reads and writes, B is a friend of A exactly when A is one of B.
FriendshipSymmetric ==
  \A a \in CallerIds, b \in CallerIds :
    b \in FriendsOf(disk, a) <=> a \in FriendsOf(disk, b)

\* Two users are friends in the file while a handler works on a stale copy.
FriendshipSymmetricWitness ==
  /\ \E a \in CallerIds, b \in CallerIds :
       a # b /\ b \in FriendsOf(disk, a) /\ a \in FriendsOf(disk, b)
  /\ StaleHandler

\* C2 (Spec): in every content of the file, whatever the interleaving, B is in
\* sent(A) exactly when A is in received(B).
RequestsMirrored ==
  \A a \in CallerIds, b \in CallerIds :
    b \in SentOf(disk, a) <=> a \in ReceivedOf(disk, b)

\* A request is pending in the file while a handler works on a stale copy.
RequestsMirroredWitness ==
  /\ \E a \in CallerIds, b \in CallerIds :
       a # b /\ b \in SentOf(disk, a) /\ a \in ReceivedOf(disk, b)
  /\ StaleHandler

\* C3 (MsgSpec): a message that a send has written to the file (and answered
\* with) is in its thread in every later content of the file.
NoMessageLost ==
  [][\A c \in DOMAIN disk.messages :
       \A i \in DOMAIN disk.messages[c] :
         Includes(Thread(disk', c), disk.messages[c][i])]_vars

\* C4 (Spec): no handler writes the file between another handler's readDb and
\* that handler's writeDb: every handler at work holds a copy of the file as it
\* is now.
MutationsSerialized == \A h \in Handlers : h.ver = nwrites

\* C5 (SeqSpec): no user id is in its own friends set.
NoSelfFriendship == \A a \in CallerIds : a \notin FriendsOf(disk, a)

\* C6 (SeqSpec): no pair is a pending request and a friendship at once: B is
\* never both in sent(A) and in friends(A).
NoPendingBetweenFriends ==
  \A a \in CallerIds, b \in CallerIds :
    ~(b \in SentOf(disk, a) /\ b \in FriendsOf(disk, a))

\* C7 (SeqSpec): sendRequest(A, B) is idempotent.  When a successful
\* sendRequest(A, B) is about to write its copy, a second sendRequest(A, B) run on
\* that copy succeeds and changes nothing; and when the request is already
\* pending in the file (the first call is written), the call at work succeeds
\* with a copy equal to the file.
SendRequestIdempotent ==
  \A h \in Handlers :
    h.op = "sendRequest" =>
      /\ h.res = Ok
      /\ SendRequestOut(h.pend, h.actor, h.target) = Out(h.pend, Ok, NoMsg)
      /\ (h.target \in SentOf(disk, h.actor) /\ h.actor \in ReceivedOf(disk, h.target))
           => h.pend = disk

\* The second of two sendRequest(A, B) calls has run: the request is pending in
\* the file and the call at work asks for it again.
SendRequestIdempotentWitness ==
  \E h \in Handlers :
    /\ h.op = "sendRequest"
    /\ h.target \in SentOf(disk, h.actor)
    /\ h.actor \in ReceivedOf(disk, h.target)

\* C8 (SeqSpec): acceptRequest(actor, from) with no request from `from` to actor
\* pending succeeds and leaves every friends, sent and received set as it was.
\* Stated for a registered `from` other than actor, the pairs between which a
\* request can have been sent and resolved.
AcceptResolvedIsNoOp ==
  \A h \in Handlers :
    ( /\ h.op = "acceptRequest"
      /\ h.target # h.actor
      /\ HasUser(disk, h.target)
      /\ h.target \notin ReceivedOf(disk, h.actor)
      /\ h.actor \notin SentOf(disk, h.target) )
    => (h.res = Ok /\ SameSets(h.pend, disk))

\* C9 (SeqSpec): declineRequest(actor, from) succeeds, takes `from` out of
\* received(actor) and actor out of sent(from), and changes no friends set and no
\* other sent or received membership; with no such request pending it changes
\* no set at all.
DeclineOnlyRemovesRequest ==
  \A h \in Handlers :
    h.op = "declineRequest" =>
      /\ h.res = Ok
      /\ h.pend.friends = disk.friends
      /\ \A u \in CallerIds :
           /\ FriendsOf(h.pend, u) = FriendsOf(disk, u)
           /\ SentOf(h.pend, u) =
                SentOf(disk, u) \ (IF u = h.target THEN {h.actor} ELSE {})
           /\ ReceivedOf(h.pend, u) =
                ReceivedOf(disk, u) \ (IF u = h.actor THEN {h.target} ELSE {})
      /\ (h.target \notin ReceivedOf(disk, h.actor) /\ h.actor \notin SentOf(disk, h.target))
           => SameSets(h.pend, disk)

\* A decline of a pending request is about to be written.
DeclineOnlyRemovesRequestWitness ==
  \E h \in Handlers :
    /\ h.op = "declineRequest"
    /\ h.target # h.actor
    /\ h.target \in ReceivedOf(disk, h.actor)
    /\ h.actor \in SentOf(disk, h.target)
    /\ h.target \notin ReceivedOf(h.pend, h.actor)

\* C10 (Spec): the write of an acceptRequest(B, A) puts into the file, in one
\* step, the friendship on both sides and the request A -> B removed on both
\* sides: no content of the file has the accepted request removed with the
\* friendship missing on a side.
AcceptAtomic ==
  [][\A h \in Handlers :
       (h.op = "acceptRequest" /\ disk' = h.pend /\ nwrites' = nwrites + 1) =>
         /\ h.target \in FriendsOf(disk', h.actor)
         /\ h.actor \in FriendsOf(disk', h.target)
         /\ h.target \notin ReceivedOf(disk', h.actor)
         /\ h.actor \notin SentOf(disk', h.target)]_vars

\* An acceptRequest(B, A) of a request pending in the file is about to be
\* written.
AcceptAtomicWitness ==
  \E h \in Handlers :
    /\ h.op = "acceptRequest"
    /\ h.target # h.actor
    /\ h.target \in ReceivedOf(disk, h.actor)
    /\ h.actor \in SentOf(disk, h.target)
    /\ h.target \notin FriendsOf(disk, h.actor)
    /\ h.target \in FriendsOf(h.pend, h.actor)

\* The handlers at work on a message route.
Senders == { h \in Handlers : h.op \in {"sendTextMessage", "sendVoiceMessage"} }

\* C11 (KeySpec): the thread key of a send is the same with actor and peer
\* exchanged, and two sends have the same thread key only when they are between
\* the same two identities.
ThreadKeyInjective ==
  \A h \in Senders, g \in Senders :
    /\ ChatId(h.actor, h.target) = ChatId(h.target, h.actor)
    /\ ChatId(h.actor, h.target) = ChatId(g.actor, g.target)
         => {h.actor, h.target} = {g.actor, g.target}

\* s is an initial part of t.
IsPrefix(s, t) == Len(s) <= Len(t) /\ SubSeq(t, 1, Len(s)) = s

\* The creation times of a thread never go down along it.
TimeOrdered(thread) ==
  \A i \in DOMAIN thread, j \in DOMAIN thread :
    i <= j => thread[i].time <= thread[j].time

\* C12 (MsgSpec): whenever the store changes, every thread of the new store is
\* in non-decreasing order of creation time and has the thread of the old store
\* as an initial part: a send only adds its message at the tail.
MessagesAppendOnly ==
  [][\A c \in DOMAIN disk'.messages \cup DOMAIN disk.messages :
       /\ TimeOrdered(Thread(disk', c))
       /\ IsPrefix(Thread(disk, c), Thread(disk', c))]_vars

\* The handlers of the like route that found their post.
Likers == { h \in Handlers : h.op = "toggleLike" /\ h.res.status = 200 }

\* C13 (FeedSpec): no id is twice in the likes of a post of the file; and for a
\* like handler that read the file as it is now, its result has the actor in
\* the likes exactly when the file does not, and the same toggle on its result
\* gives back the likes of the file, as a set.
LikeToggleInvolution ==
  /\ \A p \in DOMAIN disk.posts :
       \A i \in DOMAIN disk.posts[p].likes, j \in DOMAIN disk.posts[p].likes :
         disk.posts[p].likes[i] = disk.posts[p].likes[j] => i = j
  /\ \A h \in Likers :
       h.ver = nwrites =>
         /\ Includes(LikesOf(h.pend, h.target), h.actor)
              <=> ~Includes(LikesOf(disk, h.target), h.actor)
         /\ Range(LikesOf(ToggleLikeBody(h.pend, h.actor, h.target).db, h.target))
              = Range(LikesOf(disk, h.target))

\* A user who is in the likes of a post toggles the like of that post.
LikeToggleInvolutionWitness ==
  \E h \in Likers :
    /\ h.ver = nwrites
    /\ Includes(LikesOf(disk, h.target), h.actor)
    /\ ~Includes(LikesOf(h.pend, h.target), h.actor)

\* C14 (RegSpec): a sendRequest of a registered caller that read the file as it
\* is now answers 400 when the target is the caller and 404 when the target is
\* not a registered user, and its copy of the store is the file, unchanged.
SendRequestRejects ==
  \A h \in Handlers :
    h.op = "sendRequest" /\ h.ver = nwrites /\ HasUser(disk, h.actor) =>
      /\ h.target = h.actor => h.res = Err(400, "self") /\ h.pend = disk
      /\ ~HasUser(disk, h.target) =>
           h.res = Err(404, "user not found") /\ h.pend = disk

\* A request to oneself and a request to an id that is not registered have both
\* been answered with their errors, two users being in the file.
SendRequestRejectsWitness ==
  /\ \E h \in Handlers :
       /\ h.op = "sendRequest" /\ h.ver = nwrites /\ HasUser(disk, h.actor)
       /\ h.target = h.actor /\ h.res.status = 400
  /\ \E h \in Handlers :
       /\ h.op = "sendRequest" /\ h.ver = nwrites /\ HasUser(disk, h.actor)
       /\ ~HasUser(disk, h.target) /\ h.res.status = 404
  /\ Len(disk.users) >= 2

\* C15 (SeqSpec): no two users of the file have the same id, and no two
\* entries of db.friends, and no two of db.friendRequests, are for the same
\* user id.
UserIdsUnique ==
  /\ \A i \in DOMAIN disk.users, j \in DOMAIN disk.users :
       disk.users[i].id = disk.users[j].id => i = j
  /\ \A i \in DOMAIN disk.friends, j \in DOMAIN disk.friends :
       disk.friends[i].userId = disk.friends[j].userId => i = j
  /\ \A i \in DOMAIN disk.friendRequests, j \in DOMAIN disk.friendRequests :
       disk.friendRequests[i].userId = disk.friendRequests[j].userId => i = j

\* The file has a user of that name.
NameTaken(db, username) == \E i \in DOMAIN db.users : db.users[i].username = username

\* C16 (RegSpec): however registrations interleave, no two users of the file
\* have the same username; and a registration with a password, for a name that
\* is in the file, answers 400 "username taken" and leaves the store as it is.
UsernamesUnique ==
  /\ \A i \in DOMAIN disk.users, j \in DOMAIN disk.users :
       disk.users[i].username = disk.users[j].username => i = j
  /\ \A h \in Handlers :
       /\ h.op = "register"
       /\ h.body.password # "" /\ NameTaken(disk, h.body.username)
       => h.res = Err(400, "username taken") /\ h.pend.users = disk.users

\* C17 (FileSpec): what a handler has loaded is a complete store, the one in
\* the file before a write or the one after it, never an initial part of one.
LoadsComplete == \A h \in Handlers : Parses(h.pend)

Refused(h) ==
  \/ h.op = "createPost" /\ h.body.text = "" /\ h.body.image = ""
  \/ h.op = "toggleLike" /\ FindPost(disk, h.target) = 0
  \/ h.op = "addComment" /\ (FindPost(disk, h.target) = 0 \/ h.body.text = "")
  \/ h.op = "sendTextMessage" /\ h.body.text = ""
  \/ h.op = "sendVoiceMessage" /\ h.body.audioData = ""

\* C19 (RejSpec): a createPost with no text and no image, a toggleLike or
\* addComment for a post id that is not in the file, an addComment with no text
\* and a message with no text or audio are answered with an error (400, or 404
\* for the post id) and the handler's copy of the store is the file, unchanged;
\* and a handler that answers with an error leaves the file as it is.
RejectedLeaveStore ==
  /\ \A h \in Handlers :
       Refused(h) =>
         /\ h.res.status \in {400, 404}
         /\ h.op = "toggleLike" => h.res.status = 404
         /\ h.op # "toggleLike" /\ h.body.text = "" /\ h.body.image = ""
              /\ h.body.audioData = "" => h.res.status = 400
  /\ \A h \in Handlers : h.res.status >= 400 => h.pend = disk

\* A comment with no text for a post of the file has been refused, the post
\* having likes or comments.
RejectedLeaveStoreWitness ==
  \E h \in Handlers :
    /\ h.op = "addComment" /\ h.body.text = "" /\ h.res.status = 400
    /\ FindPost(disk, h.target) # 0
    /\ disk.posts[FindPost(disk, h.target)].comments # << >>

====
